---- MODULE Spec2Model ----
(***************************************************************************)
(* super-dca-gauge/sqrtprice.py: calculate_sqrt_price and its test table.  *)
(*                                                                         *)
(* Python integers are unbounded, and the values here reach 2^192 * 10^18, *)
(* so an integer is a sign and a magnitude, the magnitude a little-endian  *)
(* sequence of limbs in base 10^4 with no leading zero limb (zero is the   *)
(* empty sequence).  Every limb product stays below 2^31.                  *)
(***************************************************************************)
EXTENDS Integers, Sequences, FiniteSets

\* ------------------------------------------------------------ bounds

\* Reserves of the grid run over -MaxNegReserve .. MaxReserve, decimals over
\* 0 .. MaxDecimals.
MaxReserve == 2
MaxNegReserve == 1
MaxDecimals == 1

\* ------------------------------------------- unbounded naturals (limbs)

Base == 10 ^ 4

MaxI(x, y) == IF x >= y THEN x ELSE y
MinI(x, y) == IF x <= y THEN x ELSE y
Limb(a, i) == IF 1 <= i /\ i <= Len(a) THEN a[i] ELSE 0

\* a without its leading zero limbs
Norm(a) ==
    SubSeq(a, 1, Cardinality({i \in 1..Len(a) : \E m \in i..Len(a) : a[m] # 0}))

RECURSIVE FromNat(_)
FromNat(n) == IF n = 0 THEN << >> ELSE <<n % Base>> \o FromNat(n \div Base)

BigLt(a, b) ==
    \/ Len(a) < Len(b)
    \/ /\ Len(a) = Len(b)
       /\ \E i \in 1..Len(a) :
              a[i] < b[i] /\ \A m \in (i + 1)..Len(a) : a[m] = b[m]

BigLe(a, b) == ~BigLt(b, a)

\* a * Base^n
Shift(a, n) == IF Len(a) = 0 THEN a ELSE [j \in 1..n |-> 0] \o a

\* Addition with the carries looked ahead: a carry enters limb i when a lower
\* limb sum overflows and every limb sum between is Base - 1.
BigAdd(a, b) ==
    LET n == MaxI(Len(a), Len(b))
        s == [i \in 1..n |-> Limb(a, i) + Limb(b, i)]
        carry(i) ==
            IF /\ i > 1
               /\ \/ s[i - 1] >= Base
                  \/ /\ s[i - 1] = Base - 1
                     /\ \E j \in 1..(i - 2) :
                            s[j] >= Base /\ \A m \in (j + 1)..(i - 2) : s[m] = Base - 1
            THEN 1 ELSE 0
    IN Norm([i \in 1..(n + 1) |-> IF i <= n THEN (s[i] + carry(i)) % Base
                                            ELSE carry(i)])

\* a - b for a >= b, with the borrows looked ahead
BigSub(a, b) ==
    LET s == [i \in 1..Len(a) |-> a[i] - Limb(b, i)]
        borrow(i) ==
            IF /\ i > 1
               /\ \/ s[i - 1] < 0
                  \/ /\ s[i - 1] = 0
                     /\ \E j \in 1..(i - 2) :
                            s[j] < 0 /\ \A m \in (j + 1)..(i - 2) : s[m] = 0
            THEN 1 ELSE 0
    IN Norm([i \in 1..Len(a) |-> (s[i] - borrow(i) + Base) % Base])

\* a * k for one limb k: the low halves of the limb products plus the high
\* halves one limb up
BigMulSmall(a, k) ==
    BigAdd([i \in 1..Len(a) |-> (a[i] * k) % Base],
           [i \in 1..(Len(a) + 1) |-> IF i = 1 THEN 0 ELSE (a[i - 1] * k) \div Base])

\* the sum of a[i] * b[k + 1 - i] for i from lo to hi
RECURSIVE Column(_, _, _, _, _)
Column(a, b, k, lo, hi) ==
    IF lo > hi THEN 0 ELSE a[lo] * b[k + 1 - lo] + Column(a, b, k, lo + 1, hi)

\* a * b: the column sums, each split into three limbs
BigMul(a, b) ==
    LET n == Len(a) + Len(b) - 1
        col == [k \in 1..n |->
                   Column(a, b, k, MaxI(1, k + 1 - Len(b)), MinI(Len(a), k))]
    IN IF Len(a) = 0 \/ Len(b) = 0 THEN << >>
       ELSE BigAdd(BigAdd([k \in 1..n |-> col[k] % Base],
                          [k \in 1..(n + 1) |->
                              IF k = 1 THEN 0 ELSE (col[k - 1] \div Base) % Base]),
                   [k \in 1..(n + 2) |->
                       IF k <= 2 THEN 0 ELSE col[k - 2] \div (Base * Base)])

\* b ^ e for one limb b, by squaring
RECURSIVE BigPow(_, _)
BigPow(b, e) ==
    IF e = 0 THEN <<1>>
    ELSE LET h == BigPow(b, e \div 2)
             sq == BigMul(h, h)
         IN IF e % 2 = 1 THEN BigMulSmall(sq, b) ELSE sq

\* the largest q <= qhat with q * d <= r
RECURSIVE QDown(_, _, _)
QDown(r, d, q) ==
    IF BigLe(BigMulSmall(d, q), r) THEN q ELSE QDown(r, d, q - 1)

\* long division: st holds the quotient limbs found so far, from the top limb
\* of a down, and the remainder under them
RECURSIVE DivFrom(_, _, _)
DivFrom(a, d, st) ==
    IF Len(st.quot) = Len(a) THEN st
    ELSE LET i == Len(a) - Len(st.quot)
             r1 == Norm(<<a[i]>> \o st.rem)
             n == Len(d)
             rtop == Limb(r1, n + 1) * Base + Limb(r1, n)
             qd == IF BigLt(r1, d) THEN 0
                   ELSE QDown(r1, d, MinI(rtop \div d[n], Base - 1))
         IN DivFrom(a, d, [quot |-> <<qd>> \o st.quot,
                           rem |-> BigSub(r1, BigMulSmall(d, qd))])

\* quotient of a by d > 0, and the remainder scaled by f (zero iff a mod d is);
\* scaling both by f brings the top limb of d to at least Base / 2, which keeps
\* the first guess of each quotient limb within two of it.  The leading
\* Len(d) - 1 limbs of a are below d: they start as the remainder, under as
\* many zero quotient limbs.
BigDivMod(a, d) ==
    LET f == Base \div (d[Len(d)] + 1)
        a1 == BigMulSmall(a, f)
        d1 == BigMulSmall(d, f)
        lead == MinI(Len(a1), Len(d1) - 1)
        r == DivFrom(a1, d1,
                     [quot |-> [j \in 1..lead |-> 0],
                      rem |-> SubSeq(a1, Len(a1) - lead + 1, Len(a1))])
    IN [quot |-> Norm(r.quot), rem |-> r.rem]

BigDiv(a, d) == BigDivMod(a, d).quot

RECURSIVE SmallSqrt(_, _, _)
SmallSqrt(n, lo, hi) ==
    IF lo = hi THEN lo
    ELSE LET mid == (lo + hi + 1) \div 2
         IN IF mid * mid <= n THEN SmallSqrt(n, mid, hi)
                              ELSE SmallSqrt(n, lo, mid - 1)

\* a \div 2: each limb takes the parity of the limb above it
Half(a) ==
    Norm([i \in 1..Len(a) |-> (a[i] + (Limb(a, i + 1) % 2) * Base) \div 2])

\* Newton's iteration from a start x at or above the root.  Every step lands
\* at or above the root, so the first x with x * x <= n is the root.
RECURSIVE Newton(_, _)
Newton(n, x) ==
    IF BigLe(BigMul(x, x), n) THEN x
    ELSE Newton(n, Half(BigAdd(x, BigDiv(n, x))))

\* The integer square root of a magnitude.  The root of the leading limbs,
\* plus one and shifted back, is a start above the root of the whole.
RECURSIVE BigIsqrt(_)
BigIsqrt(n) ==
    IF Len(n) = 0 THEN << >>
    ELSE IF Len(n) <= 2
    THEN FromNat(SmallSqrt(Limb(n, 2) * Base + n[1], 0, Base - 1))
    ELSE LET k == MaxI(1, (Len(n) - 1) \div 4)
             a == BigIsqrt(SubSeq(n, 2 * k + 1, Len(n)))
         IN Newton(n, Shift(BigAdd(a, <<1>>), k))

\* ------------------------------------------------------ Python integers

Abs(n) == IF n < 0 THEN 0 - n ELSE n

PyInt(neg, mag) == [bound |-> TRUE, neg |-> neg /\ Len(mag) > 0, mag |-> mag]
\* a local name before its first assignment
Unbound == [bound |-> FALSE, neg |-> FALSE, mag |-> << >>]

\* an argument as passed by the caller
Arg(n) == PyInt(n < 0, FromNat(Abs(n)))

\* b ** e for e >= 0
PyPow(b, e) == PyInt(FALSE, BigPow(b, e))

\* a * b
PyMul(a, b) == PyInt(a.neg # b.neg, BigMul(a.mag, b.mag))

\* a == 0
PyIsZero(a) == Len(a.mag) = 0

NoError == "none"
ZeroReserveError == "ValueError: Token0 reserve cannot be zero"
IsqrtNegativeError == "ValueError: isqrt() argument must be nonnegative"

ZeroDivisionError == "ZeroDivisionError: integer division or modulo by zero"

Raise(e) == [exc |-> e, value |-> Unbound]
Value(v) == [exc |-> NoError, value |-> v]

\* a // b: the floor of the quotient, towards minus infinity
PyFloorDiv(a, b) ==
    IF PyIsZero(b) THEN Raise(ZeroDivisionError)
    ELSE LET dm == BigDivMod(a.mag, b.mag)
         IN IF a.neg = b.neg \/ PyIsZero(a) THEN Value(PyInt(FALSE, dm.quot))
            ELSE IF Len(dm.rem) = 0 THEN Value(PyInt(TRUE, dm.quot))
            ELSE Value(PyInt(TRUE, BigAdd(dm.quot, <<1>>)))

\* math.isqrt(n), had it rounded up instead of down
MathIsqrtUp(n) ==
    IF n.neg THEN Raise(IsqrtNegativeError)
    ELSE LET r == BigIsqrt(n.mag)
         IN Value(PyInt(FALSE, IF BigMul(r, r) = n.mag THEN r
                               ELSE BigAdd(r, <<1>>)))

\* math.isqrt(n)
MathIsqrt(n) ==
    IF n.neg THEN Raise(IsqrtNegativeError)
    ELSE Value(PyInt(FALSE, BigIsqrt(n.mag)))

\* --------------------------------------------- calculate_sqrt_price

\* reserve * (10 * decimals), a product where the power is meant
ScaledAmountTimes(reserve, decimals) ==
    PyMul(Arg(reserve), Arg(10 * decimals))

\* reserve * (10 ** decimals)
ScaledAmount(reserve, decimals) == PyMul(Arg(reserve), PyPow(10, decimals))

\* the guard, had it tested token1_amount
ZeroGuardOnToken1(f) == PyIsZero(f.token1_amount)

\* the guard, had it tested both amounts
ZeroGuardEither(f) == PyIsZero(f.token0_amount) \/ PyIsZero(f.token1_amount)

\* token0_amount == 0
ZeroGuard(f) == PyIsZero(f.token0_amount)

\* 2**192
TwoPow192 == PyPow(2, 192)

\* token1_amount * (2**96), the scale of the root where its square is meant
NumeratorQ96(f) == PyMul(f.token1_amount, PyPow(2, 96))

\* token1_amount * (2**192)
Numerator(f) == PyMul(f.token1_amount, TwoPow192)

\* the quotient, had it been rounded up
PriceRatioScaledUp(f) ==
    LET q == PyFloorDiv(f.numerator, f.token0_amount)
        back == PyMul(q.value, f.token0_amount)
    IN IF q.exc # NoError \/ back = f.numerator THEN q
       ELSE Value(PyInt(q.value.neg, BigAdd(q.value.mag, <<1>>)))

\* the quotient, had the price been taken the other way round
PriceRatioInverted(f) == PyFloorDiv(PyMul(f.token0_amount, TwoPow192), f.token1_amount)

\* numerator // token0_amount
PriceRatioScaled(f) == PyFloorDiv(f.numerator, f.token0_amount)

\* math.isqrt(price_ratio_scaled)
SqrtPriceX96(f) == MathIsqrt(f.price_ratio_scaled)

\* The activation record of a call: the four parameters, the five locals, the
\* line about to run, and how the call ended.
Entry(a) ==
    [pc |-> "line5",
     token0_reserve |-> a.token0_reserve, token1_reserve |-> a.token1_reserve,
     token0_decimals |-> a.token0_decimals, token1_decimals |-> a.token1_decimals,
     token0_amount |-> Unbound, token1_amount |-> Unbound, numerator |-> Unbound,
     price_ratio_scaled |-> Unbound, sqrt_price_x96 |-> Unbound,
     exc |-> NoError, retval |-> Unbound]

\* an exception e leaves the function
Raised(f, e) == [f EXCEPT !.pc = "raised", !.exc = e]

\* What each line does to the frame that runs it.
Exec5(f) ==
    [f EXCEPT !.token0_amount = ScaledAmount(f.token0_reserve, f.token0_decimals),
              !.pc = "line6"]

Exec6(f) ==
    [f EXCEPT !.token1_amount = ScaledAmount(f.token1_reserve, f.token1_decimals),
              !.pc = "line13"]

Exec13(f) ==
    IF ZeroGuard(f) THEN Raised(f, ZeroReserveError)
    ELSE [f EXCEPT !.pc = "line16"]

Exec16(f) == [f EXCEPT !.numerator = Numerator(f), !.pc = "line18"]

Exec18(f) ==
    LET q == PriceRatioScaled(f)
    IN IF q.exc # NoError THEN Raised(f, q.exc)
       ELSE [f EXCEPT !.price_ratio_scaled = q.value, !.pc = "line21"]

Exec21(f) ==
    LET r == SqrtPriceX96(f)
    IN IF r.exc # NoError THEN Raised(f, r.exc)
       ELSE [f EXCEPT !.sqrt_price_x96 = r.value, !.pc = "line23"]

Exec23(f) == [f EXCEPT !.retval = f.sqrt_price_x96, !.pc = "returned"]

Done(f) == f.pc \in {"returned", "raised"}

\* the function run from entry to exit with nothing else running
calculate_sqrt_price(a) ==
    LET f6 == Exec5(Entry(a))
        f13 == Exec6(f6)
        f16 == Exec13(f13)
        f18 == Exec16(f16)
        f21 == Exec18(f18)
        f23 == Exec21(f21)
    IN IF Done(f16) THEN f16
       ELSE IF Done(f21) THEN f21
       ELSE IF Done(f23) THEN f23
       ELSE Exec23(f23)

\* ------------------------------------------------------------- state

\* frame[c] is the activation record of call c
VARIABLE frame

vars == <<frame>>

Calls == DOMAIN frame

Finished(c) == Done(frame[c])

\* A call runs one line at a time.
Line5(c) ==
    /\ frame[c].pc = "line5"
    /\ frame' = [frame EXCEPT ![c] = Exec5(@)]

Line6(c) ==
    /\ frame[c].pc = "line6"
    /\ frame' = [frame EXCEPT ![c] = Exec6(@)]

Line13(c) ==
    /\ frame[c].pc = "line13"
    /\ frame' = [frame EXCEPT ![c] = Exec13(@)]

\* line 16, had numerator been a name of the module that every call shares
Line16Global(c) ==
    /\ frame[c].pc = "line16"
    /\ frame' = [k \in Calls |->
                    IF k = c THEN Exec16(frame[c])
                    ELSE IF frame[k].numerator.bound
                    THEN [frame[k] EXCEPT !.numerator = Numerator(frame[c])]
                    ELSE frame[k]]

Line16(c) ==
    /\ frame[c].pc = "line16"
    /\ frame' = [frame EXCEPT ![c] = Exec16(@)]

Line18(c) ==
    /\ frame[c].pc = "line18"
    /\ frame' = [frame EXCEPT ![c] = Exec18(@)]

Line21(c) ==
    /\ frame[c].pc = "line21"
    /\ frame' = [frame EXCEPT ![c] = Exec21(@)]

Line23(c) ==
    /\ frame[c].pc = "line23"
    /\ frame' = [frame EXCEPT ![c] = Exec23(@)]

\* ------------------------------------------------------------ inputs

Args(r0, r1, d0, d1) ==
    [token0_reserve |-> r0, token1_reserve |-> r1,
     token0_decimals |-> d0, token1_decimals |-> d1]

ArgsOf(f) ==
    Args(f.token0_reserve, f.token1_reserve, f.token0_decimals, f.token1_decimals)

\* a decimal numeral written in groups of four digits, most significant first
RECURSIVE Decimal(_)
Decimal(g) == IF Len(g) = 0 THEN << >> ELSE Append(Decimal(Tail(g)), Head(g))

\* run_tests: the reserves of each case and the value it expects, with
\* token0_decimals = token1_decimals = 18
TestDecimals == 18

TestTable == <<
    [token0_reserve |-> 1, token1_reserve |-> 1,
     expected |-> Decimal(<<7, 9228, 1625, 1426, 4337, 5935, 4395, 336>>)],
    [token0_reserve |-> 2, token1_reserve |-> 1,
     expected |-> Decimal(<<5, 6022, 7709, 7478, 6139, 9187, 3193, 8227>>)],
    [token0_reserve |-> 4, token1_reserve |-> 1,
     expected |-> Decimal(<<3, 9614, 812, 5713, 2168, 7967, 7197, 5168>>)],
    [token0_reserve |-> 1, token1_reserve |-> 2,
     expected |-> Decimal(<<11, 2045, 5419, 4957, 2279, 8374, 6387, 6454>>)],
    [token0_reserve |-> 1, token1_reserve |-> 4,
     expected |-> Decimal(<<15, 8456, 3250, 2852, 8675, 1870, 8790, 672>>)],
    [token0_reserve |-> 100, token1_reserve |-> 121,
     expected |-> Decimal(<<8, 7150, 9787, 6569, 771, 3528, 9834, 5369>>)],
    [token0_reserve |-> 100, token1_reserve |-> 99,
     expected |-> Decimal(<<7, 8831, 263, 6673, 4652, 3036, 6991, 7531>>)],
    [token0_reserve |-> 1000, token1_reserve |-> 99,
     expected |-> Decimal(<<2, 4928, 5593, 6076, 6947, 3688, 1808, 6097>>)],
    [token0_reserve |-> 100, token1_reserve |-> 101,
     expected |-> Decimal(<<7, 9623, 3178, 9583, 914, 5106, 3964, 423>>)],
    [token0_reserve |-> 100, token1_reserve |-> 1000,
     expected |-> Decimal(<<25, 541, 4483, 7504, 7931, 1864, 1380, 1569>>)],
    [token0_reserve |-> 100, token1_reserve |-> 1010,
     expected |-> Decimal(<<25, 1791, 394, 1047, 1229, 1732, 112, 2529>>)],
    [token0_reserve |-> 100, token1_reserve |-> 10000,
     expected |-> Decimal(<<79, 2281, 6251, 4264, 3375, 9354, 3950, 3360>>)] >>

TestArgs(i) ==
    Args(TestTable[i].token0_reserve, TestTable[i].token1_reserve,
         TestDecimals, TestDecimals)

TestInputs == {TestArgs(i) : i \in DOMAIN TestTable}

Reserves == (0 - MaxNegReserve) .. MaxReserve
Decimals == 0 .. MaxDecimals

\* the arguments of a single call: a grid around zero, at small decimals and at
\* the decimals of the tests, and the cases of run_tests
Inputs ==
    {Args(r0, r1, d0, d1) : r0 \in Reserves, r1 \in Reserves,
                            d0 \in Decimals \cup {TestDecimals},
                            d1 \in Decimals \cup {TestDecimals}}
    \cup TestInputs

\* the well-formed arguments: no negative reserve
ValidInputs ==
    {Args(r0, r1, d0, d1) : r0 \in 0 .. MaxReserve, r1 \in 0 .. MaxReserve,
                            d0 \in Decimals, d1 \in Decimals}

\* the arguments of a second call made after a call with arguments a: the same
\* again, both decimals one higher, the reserves exchanged, or one reserve changed
Variants(a) ==
    {a,
     Args(a.token0_reserve, a.token1_reserve,
          a.token0_decimals + 1, a.token1_decimals + 1),
     Args(a.token1_reserve, a.token0_reserve, a.token0_decimals, a.token1_decimals)}
    \cup {[a EXCEPT !.token0_reserve = r] : r \in 0 .. MaxReserve}
    \cup {[a EXCEPT !.token1_reserve = r] : r \in 0 .. MaxReserve}

\* the arguments of calls that run at the same time
ConcurrentInputs ==
    {Args(0, 1, TestDecimals, TestDecimals)} \cup {TestArgs(i) : i \in 1 .. 5}

\* ------------------------------------------------------ specifications

\* one call
Init == frame \in {<<Entry(a)>> : a \in Inputs}

\* any call that has not finished runs its next line
Next ==
    \/ \E c \in Calls : Line5(c)
    \/ \E c \in Calls : Line6(c)
    \/ \E c \in Calls : Line13(c)
    \/ \E c \in Calls : Line16(c)
    \/ \E c \in Calls : Line18(c)
    \/ \E c \in Calls : Line21(c)
    \/ \E c \in Calls : Line23(c)

Spec == Init /\ [][Next]_vars

\* two calls by one caller, the second after the first has finished
InitPair ==
    \E a \in ValidInputs : \E b \in Variants(a) : frame = <<Entry(a), Entry(b)>>

\* the caller reaches call c when the calls before it have finished
Turn(c) == \A k \in Calls : k < c => Finished(k)

NextPair ==
    \/ \E c \in Calls : Turn(c) /\ Line5(c)
    \/ \E c \in Calls : Turn(c) /\ Line6(c)
    \/ \E c \in Calls : Turn(c) /\ Line13(c)
    \/ \E c \in Calls : Turn(c) /\ Line16(c)
    \/ \E c \in Calls : Turn(c) /\ Line18(c)
    \/ \E c \in Calls : Turn(c) /\ Line21(c)
    \/ \E c \in Calls : Turn(c) /\ Line23(c)

SpecPair == InitPair /\ [][NextPair]_vars

\* two calls by two threads, their lines interleaved in any order
InitConcurrent ==
    \E a \in ConcurrentInputs : \E b \in ConcurrentInputs :
        frame = <<Entry(a), Entry(b)>>

SpecConcurrent == InitConcurrent /\ [][Next]_vars

\* ------------------------------------------------------------ claims

Returned(c) == frame[c].pc = "returned"

\* non-negative arguments with a positive token0_reserve
Valid(c) ==
    /\ frame[c].token0_reserve > 0
    /\ frame[c].token1_reserve >= 0
    /\ frame[c].token0_decimals >= 0
    /\ frame[c].token1_decimals >= 0

AnyNegative(c) ==
    \/ frame[c].token0_reserve < 0
    \/ frame[c].token1_reserve < 0
    \/ frame[c].token0_decimals < 0
    \/ frame[c].token1_decimals < 0

\* the quantities of the contract, from the arguments of a valid call:
\* reserve0 * 10^decimals0 and reserve1 * 10^decimals1 * 2^192
Q192 == BigPow(2, 192)
TokenAmount0(c) ==
    BigMul(FromNat(frame[c].token0_reserve), BigPow(10, frame[c].token0_decimals))
ScaledNumerator(c) ==
    BigMul(BigMul(FromNat(frame[c].token1_reserve),
                  BigPow(10, frame[c].token1_decimals)), Q192)

Square(x) == BigMul(x, x)
Succ(x) == BigAdd(x, <<1>>)

\* r is the integer square root of the floor of num / den, said without the
\* division: r^2 <= floor(num / den) < (r + 1)^2 iff
\* r^2 * den <= num < (r + 1)^2 * den
IsRootOfQuotient(r, num, den) ==
    /\ BigLe(BigMul(Square(r), den), num)
    /\ BigLt(num, BigMul(Square(Succ(r)), den))

\* q is the floor of num / den: q * den <= num < (q + 1) * den
IsFloorOfQuotient(q, num, den) ==
    /\ BigLe(BigMul(q, den), num)
    /\ BigLt(num, BigMul(Succ(q), den))

\* C1: a call with non-negative arguments and reserve0 > 0 returns r >= 0 with
\* r^2 <= priceRatioScaled < (r + 1)^2, priceRatioScaled being
\* (reserve1 * 10^decimals1 * 2^192) // (reserve0 * 10^decimals0).
C1_ReturnsExactRoot ==
    \A c \in Calls :
        Valid(c) /\ Returned(c) =>
            /\ frame[c].retval.bound
            /\ ~frame[c].retval.neg
            /\ IsRootOfQuotient(frame[c].retval.mag, ScaledNumerator(c), TokenAmount0(c))

\* a valid call has returned a root whose square is below the quotient
C1_Witness ==
    \E c \in Calls :
        /\ Valid(c) /\ Returned(c)
        /\ frame[c].token0_reserve = 2 /\ frame[c].token1_reserve = 1
        /\ BigLt(BigMul(Square(frame[c].retval.mag), TokenAmount0(c)),
                 ScaledNumerator(c))

\* C2: with reserve0 = 0 the call raises the zero-reserve ValueError at the
\* guard, whatever the other arguments: it never runs a line after the guard,
\* never divides, never returns.
C2_ZeroReserveRaises ==
    \A c \in Calls :
        frame[c].token0_reserve = 0 =>
            /\ frame[c].pc \in {"line5", "line6", "line13", "raised"}
            /\ frame[c].pc = "raised" => frame[c].exc = ZeroReserveError
            /\ frame[c].pc # "raised" => frame[c].exc = NoError
            /\ ~frame[c].numerator.bound
            /\ ~frame[c].price_ratio_scaled.bound
            /\ ~frame[c].retval.bound

\* compute(0, 1, 18, 18) has raised
C2_Witness ==
    \E c \in Calls :
        /\ ArgsOf(frame[c]) = Args(0, 1, 18, 18)
        /\ frame[c].pc = "raised"
        /\ frame[c].exc = ZeroReserveError

\* C3: with both decimals 18, each case of run_tests returns the literal it
\* expects, and that literal is the floor of sqrt(X / Y) * 2^96 for
\* reserve1 = X, reserve0 = Y.
C3_TestTableHolds ==
    \A c \in Calls : \A i \in DOMAIN TestTable :
        ArgsOf(frame[c]) = TestArgs(i) =>
            /\ frame[c].pc # "raised"
            /\ Returned(c) =>
                  /\ frame[c].retval = PyInt(FALSE, TestTable[i].expected)
                  /\ IsRootOfQuotient(TestTable[i].expected,
                                      BigMul(FromNat(TestTable[i].token1_reserve), Q192),
                                      FromNat(TestTable[i].token0_reserve))

\* the case of 121 over 100 has returned its literal
C3_Witness ==
    \E c \in Calls :
        /\ ArgsOf(frame[c]) = TestArgs(6)
        /\ Returned(c)
        /\ frame[c].retval.mag = TestTable[6].expected

\* C6: a call with non-negative arguments and reserve0 > 0 never raises; it
\* returns a non-negative integer, and 0 when reserve1 = 0.
C6_ValidNeverRaises ==
    \A c \in Calls :
        Valid(c) =>
            /\ frame[c].exc = NoError
            /\ frame[c].pc # "raised"
            /\ Returned(c) => frame[c].retval.bound /\ ~frame[c].retval.neg
            /\ Returned(c) /\ frame[c].token1_reserve = 0 => PyIsZero(frame[c].retval)

\* a valid call with reserve1 = 0 has returned 0
C6_Witness ==
    \E c \in Calls :
        /\ Valid(c) /\ Returned(c)
        /\ frame[c].token1_reserve = 0
        /\ frame[c].retval = PyInt(FALSE, << >>)

\* C7: a call with a negative argument ends in a ValueError and never returns.
C7_NegativeRejected ==
    \A c \in Calls :
        AnyNegative(c) /\ Finished(c) =>
            /\ frame[c].pc = "raised"
            /\ frame[c].exc \in {ZeroReserveError, IsqrtNegativeError}

\* C9: price_ratio_scaled is the floor of numerator / tokenAmount0, the
\* remainder dropped, and the square root is taken of exactly that value.
C9_QuotientIsFloor ==
    \A c \in Calls :
        Valid(c) /\ frame[c].price_ratio_scaled.bound =>
            /\ ~frame[c].price_ratio_scaled.neg
            /\ IsFloorOfQuotient(frame[c].price_ratio_scaled.mag,
                                 ScaledNumerator(c), TokenAmount0(c))
            /\ frame[c].sqrt_price_x96.bound =>
                  IsRootOfQuotient(frame[c].sqrt_price_x96.mag,
                                   frame[c].price_ratio_scaled.mag, <<1>>)

\* a quotient with a remainder has been floored and its root taken
C9_Witness ==
    \E c \in Calls :
        /\ Valid(c)
        /\ frame[c].sqrt_price_x96.bound
        /\ BigLt(BigMul(frame[c].price_ratio_scaled.mag, TokenAmount0(c)),
                 ScaledNumerator(c))

\* the second call has the arguments of the first but for the named change
SameReserves(c1, c2) ==
    /\ frame[c1].token0_reserve = frame[c2].token0_reserve
    /\ frame[c1].token1_reserve = frame[c2].token1_reserve

SameDecimals(c1, c2) ==
    /\ frame[c1].token0_decimals = frame[c2].token0_decimals
    /\ frame[c1].token1_decimals = frame[c2].token1_decimals

\* C4: one more decimal on both sides never changes the result.
C4_EqualDecimalShiftCancels ==
    \A c1 \in Calls : \A c2 \in Calls :
        /\ Valid(c1) /\ SameReserves(c1, c2)
        /\ frame[c2].token0_decimals = frame[c1].token0_decimals + 1
        /\ frame[c2].token1_decimals = frame[c1].token1_decimals + 1
        /\ Finished(c1) /\ Finished(c2)
        => /\ Returned(c1) /\ Returned(c2)
           /\ frame[c1].retval = frame[c2].retval

\* two calls whose decimals differ from each other, the second with one more
\* on both sides, have returned the same non-zero value
C4_Witness ==
    \E c1 \in Calls : \E c2 \in Calls :
        /\ Valid(c1) /\ SameReserves(c1, c2)
        /\ frame[c1].token0_decimals # frame[c1].token1_decimals
        /\ frame[c2].token0_decimals = frame[c1].token0_decimals + 1
        /\ frame[c2].token1_decimals = frame[c1].token1_decimals + 1
        /\ Returned(c1) /\ Returned(c2)
        /\ frame[c1].retval = frame[c2].retval
        /\ ~PyIsZero(frame[c1].retval)

\* the reserves exchanged, at one decimals value on all four sides
Reciprocal(c1, c2) ==
    /\ frame[c1].token0_reserve = frame[c2].token1_reserve
    /\ frame[c1].token1_reserve = frame[c2].token0_reserve
    /\ frame[c1].token0_decimals = frame[c1].token1_decimals
    /\ SameDecimals(c1, c2)

\* C5: x = compute(a, b, d, d) and y = compute(b, a, d, d) for a, b > 0 have
\* x * y <= 2^192 < (x + 1) * (y + 1).
C5_ReciprocalProduct ==
    \A c1 \in Calls : \A c2 \in Calls :
        /\ Valid(c1) /\ Valid(c2) /\ Reciprocal(c1, c2)
        /\ Finished(c1) /\ Finished(c2)
        => /\ Returned(c1) /\ Returned(c2)
           /\ BigLe(BigMul(frame[c1].retval.mag, frame[c2].retval.mag), Q192)
           /\ BigLt(Q192, BigMul(Succ(frame[c1].retval.mag), Succ(frame[c2].retval.mag)))

\* compute(1, 2, d, d) and compute(2, 1, d, d) have returned, their product
\* below 2^192
C5_Witness ==
    \E c1 \in Calls : \E c2 \in Calls :
        /\ Reciprocal(c1, c2)
        /\ frame[c1].token0_reserve = 1 /\ frame[c1].token1_reserve = 2
        /\ Returned(c1) /\ Returned(c2)
        /\ BigLt(BigMul(frame[c1].retval.mag, frame[c2].retval.mag), Q192)

\* C10: at fixed decimals the result does not decrease as reserve1 grows and
\* does not increase as reserve0 grows.
C10_Monotone ==
    \A c1 \in Calls : \A c2 \in Calls :
        /\ Valid(c1) /\ Valid(c2) /\ SameDecimals(c1, c2)
        /\ Finished(c1) /\ Finished(c2)
        => /\ Returned(c1) /\ Returned(c2)
           /\ /\ frame[c1].token0_reserve = frame[c2].token0_reserve
              /\ frame[c1].token1_reserve <= frame[c2].token1_reserve
              => BigLe(frame[c1].retval.mag, frame[c2].retval.mag)
           /\ /\ frame[c1].token1_reserve = frame[c2].token1_reserve
              /\ frame[c1].token0_reserve <= frame[c2].token0_reserve
              => BigLe(frame[c2].retval.mag, frame[c1].retval.mag)

\* a larger reserve1 has returned a larger value, and a larger reserve0 a
\* smaller one
C10_Witness ==
    \E c1 \in Calls : \E c2 \in Calls :
        /\ Valid(c1) /\ Valid(c2) /\ SameDecimals(c1, c2)
        /\ Returned(c1) /\ Returned(c2)
        /\ \/ /\ frame[c1].token0_reserve = frame[c2].token0_reserve
              /\ frame[c1].token1_reserve < frame[c2].token1_reserve
              /\ BigLt(frame[c1].retval.mag, frame[c2].retval.mag)
           \/ /\ frame[c1].token1_reserve = frame[c2].token1_reserve
              /\ frame[c1].token0_reserve < frame[c2].token0_reserve
              /\ BigLt(frame[c2].retval.mag, frame[c1].retval.mag)

\* how a call ended
Outcome(f) == [pc |-> f.pc, exc |-> f.exc, retval |-> f.retval]

\* every finished call ended as the same call ends when run alone
SameAsAlone ==
    \A c \in Calls :
        Finished(c) => Outcome(frame[c]) = Outcome(calculate_sqrt_price(ArgsOf(frame[c])))

\* a step changes the frame of one call and of no other
OneFrameChanges ==
    \E c \in Calls : \A k \in Calls \ {c} : frame'[k] = frame[k]

\* C8: with the lines of several calls interleaved in any order, each call
\* ends as it does when run alone, and no step of one call touches another.
C8_ConcurrentCallsIndependent == []SameAsAlone /\ [][OneFrameChanges]_vars

\* call 1 has returned while call 2, with another token1_reserve, stood between
\* its multiplication and its division
C8_Witness ==
    /\ Returned(1)
    /\ frame[2].pc = "line18"
    /\ frame[1].token1_reserve # frame[2].token1_reserve
    /\ frame[1].numerator # frame[2].numerator
    /\ Outcome(frame[1]) = Outcome(calculate_sqrt_price(ArgsOf(frame[1])))

====
